---- MODULE Spec2Model ----
(***************************************************************************)
(* A model of mirrordom's OuterHTMLParser (python/mirrordom/parser.py): a  *)
(* stack-based tree builder driven by the tag tokenizer, with the hacked   *)
(* start-tag scanner, the case-folding rules and the svg flag.             *)
(*                                                                         *)
(* Text is a sequence of one-character strings; a tag or attribute name is *)
(* such a sequence too, so that str.lower() is computed character by       *)
(* character.  The parser object is the record held by the variable p.     *)
(***************************************************************************)
EXTENDS Integers, Sequences, FiniteSets, TLC

VARIABLES
    p,       \* the OuterHTMLParser instance (see NewParser)
    pre,     \* p as it was before the last step
    ev,      \* the last step: the tokenizer event or the chunk fed
    vocab,   \* Spec: the start tags the document is made of
    ndata,   \* Spec: number of text events so far
    rest,    \* SpecFeed: the part of the input text not fed yet
    fed      \* SpecFeed: the text fed so far

vars == <<p, pre, ev, vocab, ndata, rest, fed>>

(***************************************************************************)
(* Bounds of the exploration.                                              *)
(***************************************************************************)
MaxNodes == 3
MaxData == 1

(***************************************************************************)
(* Characters and strings.                                                 *)
(***************************************************************************)
LowerLetters == <<"a","b","c","d","e","f","g","h","i","j","k","l","m",
                  "n","o","p","q","r","s","t","u","v","w","x","y","z">>
UpperLetters == <<"A","B","C","D","E","F","G","H","I","J","K","L","M",
                  "N","O","P","Q","R","S","T","U","V","W","X","Y","Z">>
Digits == {"0","1","2","3","4","5","6","7","8","9"}
Whitespace == {" ", "\n", "\t", "\r", "\f"}

IsLower(c) == \E i \in 1..26 : LowerLetters[i] = c
IsUpper(c) == \E i \in 1..26 : UpperLetters[i] = c
IsAlpha(c) == IsLower(c) \/ IsUpper(c)

\* str.lower() on one character
lowerChar(c) ==
    IF IsUpper(c)
    THEN LowerLetters[CHOOSE i \in 1..26 : UpperLetters[i] = c]
    ELSE c

\* str.lower()
lower(s) == [i \in 1..Len(s) |-> lowerChar(s[i])]

\* the Python string spelled by a sequence of characters
RECURSIVE Str(_)
Str(s) == IF s = <<>> THEN "" ELSE s[1] \o Str(Tail(s))

\* Python's None, where a string is expected
None == <<"None">>

svg == <<"s","v","g">>

(***************************************************************************)
(* Class constants of OuterHTMLParser.                                     *)
(***************************************************************************)
VOID_TAGS == {"area", "base", "br", "col", "command", "embed", "hr",
              "img", "input", "keygen", "link", "meta", "param", "source",
              "track", "wbr"}

TABLE_ELEMS == {"tbody", "thead", "tfoot", "colgroup"}

P_CLOSERS == {"address", "article", "aside", "blockquote", "dir", "div",
              "dl", "fieldset", "footer", "form", "h1", "h2", "h3", "h4",
              "h5", "h6", "header", "hr", "menu", "nav", "ol", "p", "pre",
              "section", "table", "ul"}

AUTOCLOSE_KEYS == {"p", "tbody", "thead", "tfoot", "colgroup", "tr", "td",
                   "th", "dt", "dd", "li", "option"}

AUTOCLOSE_ON_OPEN == [k \in AUTOCLOSE_KEYS |->
    CASE k = "p" -> P_CLOSERS
      [] k \in TABLE_ELEMS -> TABLE_ELEMS
      [] k = "tr" -> {"tr"}
      [] k \in {"td", "th"} -> {"td", "th"}
      [] k \in {"dt", "dd"} -> {"dt", "dd"}
      [] k = "li" -> {"li"}
      [] k = "option" -> {"option"}]

AUTOCLOSE_ON_PARENT_CLOSE == {"col", "tbody", "thead", "tfoot", "colgroup"}

CDATA_CONTENT_ELEMENTS_V2 == {"script", "style"}

(***************************************************************************)
(* The parser object and the lxml nodes it builds.  Nodes are numbered in  *)
(* order of creation; root = 0 is None.  A node's text and tail are <<>>   *)
(* while lxml holds None.  interesting = <<>> is interesting_normal,       *)
(* otherwise it holds the tag of the pattern set_specific_cdata_mode       *)
(* compiled.  err is "none" until an exception leaves the parser.          *)
(***************************************************************************)
NewParser(retain_case) ==
    [stack |-> <<>>, root |-> 0, retain_case |-> retain_case,
     in_svg |-> FALSE, nodes |-> <<>>, rawdata |-> <<>>,
     interesting |-> <<>>, err |-> "none"]

\* HTMLParser.error: raises HTMLParseError
error(P, msg) == [P EXCEPT !.err = msg]

E_OPEN == "HTMLParseError: Unexpected open tag"
E_CLOSE_TOP == "HTMLParseError: Unexpected close tag at top of tree"
E_CLOSE == "HTMLParseError: Unexpected close tag"
E_INDEX == "IndexError"

Top(P) == P.stack[Len(P.stack)]

\* dict.__setitem__ on an insertion-ordered mapping of <<key, value>> pairs
setitem(d, k, v) ==
    IF \E i \in 1..Len(d) : d[i][1] = k
    THEN [i \in 1..Len(d) |-> IF d[i][1] = k THEN <<k, v>> ELSE d[i]]
    ELSE Append(d, <<k, v>>)

\* new.attrib.update((k, v or "") for k, v in attrs)
RECURSIVE update(_, _)
update(d, attrs) ==
    IF attrs = <<>> THEN d
    ELSE update(setitem(d, attrs[1][1],
                        IF attrs[1][2] = None THEN <<>> ELSE attrs[1][2]),
                Tail(attrs))

Element(tag, attrs) ==
    [kind |-> "element", tag |-> tag, attrib |-> update(<<>>, attrs),
     children |-> <<>>, text |-> <<>>, tail |-> <<>>]

Comment(data) ==
    [kind |-> "comment", tag |-> <<>>, attrib |-> <<>>,
     children |-> <<>>, text |-> data, tail |-> <<>>]

(***************************************************************************)
(* Tree builder.                                                           *)
(***************************************************************************)
\* find_autoclose_on_open looking the new tag up as written, not folded
find_autoclose_on_open_cased(P, tag) ==
    LET n == Len(P.stack)
        RECURSIVE walk(_)
        walk(pos) ==
            IF pos < 0 THEN (n - pos) - 1
            ELSE LET key == Str(lower(P.nodes[P.stack[pos + 1]].tag))
                 IN  IF key \notin DOMAIN AUTOCLOSE_ON_OPEN
                     THEN (n - pos) - 1
                     ELSE IF Str(tag) \notin AUTOCLOSE_ON_OPEN[key]
                     THEN (n - pos) - 1
                     ELSE IF pos = 0 THEN 0
                     ELSE walk(pos - 1)
    IN  walk(n - 1)

\* find_autoclose_on_open returning the whole stack when the walk ends on
\* position 0
find_autoclose_on_open_all(P, tag) ==
    LET ltag == Str(lower(tag))
        n == Len(P.stack)
        RECURSIVE walk(_)
        walk(pos) ==
            IF pos < 0 THEN (n - pos) - 1
            ELSE LET key == Str(lower(P.nodes[P.stack[pos + 1]].tag))
                 IN  IF key \notin DOMAIN AUTOCLOSE_ON_OPEN
                     THEN (n - pos) - 1
                     ELSE IF ltag \notin AUTOCLOSE_ON_OPEN[key]
                     THEN (n - pos) - 1
                     ELSE IF pos = 0 THEN n
                     ELSE walk(pos - 1)
    IN  walk(n - 1)

find_autoclose_on_open(P, tag) ==
    LET ltag == Str(lower(tag))
        n == Len(P.stack)
        \* pos is the 0-based index of the source; the result is the
        \* value returned
        RECURSIVE walk(_)
        walk(pos) ==
            IF pos < 0 THEN (n - pos) - 1
            ELSE LET elem == P.nodes[P.stack[pos + 1]]
                     key == Str(lower(elem.tag))
                 IN  IF key \notin DOMAIN AUTOCLOSE_ON_OPEN
                     THEN (n - pos) - 1
                     ELSE IF ltag \notin AUTOCLOSE_ON_OPEN[key]
                     THEN (n - pos) - 1
                     ELSE IF pos = 0 THEN 0
                     ELSE walk(pos - 1)
    IN  walk(n - 1)

\* close_tag without the comparison of the name with the stack top
close_tag_unchecked(P, tag, force) ==
    IF P.err # "none" THEN P
    ELSE IF P.stack = <<>> THEN error(P, E_CLOSE_TOP)
    ELSE [P EXCEPT !.stack = SubSeq(@, 1, Len(@) - 1),
                   !.in_svg = IF P.nodes[Top(P)].tag = svg THEN FALSE
                              ELSE @]

\* close_tag returning silently on an empty stack
close_tag_lenient(P, tag, force) ==
    IF P.err # "none" THEN P
    ELSE IF P.stack = <<>> THEN P
    ELSE LET elem == P.nodes[Top(P)]
         IN  IF ~force /\ elem.tag # tag THEN error(P, E_CLOSE)
             ELSE [P EXCEPT !.stack = SubSeq(@, 1, Len(@) - 1),
                            !.in_svg = IF elem.tag = svg THEN FALSE ELSE @]

\* close_tag leaving the svg flag as it is
close_tag_keep_flag(P, tag, force) ==
    IF P.err # "none" THEN P
    ELSE IF P.stack = <<>> THEN error(P, E_CLOSE_TOP)
    ELSE LET elem == P.nodes[Top(P)]
         IN  IF ~force /\ elem.tag # tag THEN error(P, E_CLOSE)
             ELSE [P EXCEPT !.stack = SubSeq(@, 1, Len(@) - 1)]

close_tag(P, tag, force) ==
    IF P.err # "none" THEN P
    ELSE IF P.stack = <<>> THEN error(P, E_CLOSE_TOP)
    ELSE LET elem == P.nodes[Top(P)]
         IN  IF ~force /\ elem.tag # tag THEN error(P, E_CLOSE)
             ELSE [P EXCEPT !.stack = SubSeq(@, 1, Len(@) - 1),
                            !.in_svg = IF elem.tag = svg THEN FALSE ELSE @]

check_autoclose_on_open(P, tag) ==
    LET num_to_close == find_autoclose_on_open(P, tag)
        RECURSIVE loop(_, _)
        loop(Q, i) == IF i = 0 THEN Q
                      ELSE loop(close_tag(Q, tag, TRUE), i - 1)
    IN  loop(P, num_to_close)

\* open_tag taking an empty stack, not a missing root, as the sign that the
\* new element is the root
open_tag_stack(P, tag, attrs) ==
    LET new == Element(tag, attrs)
        id == Len(P.nodes) + 1
        Push(Q) == [Q EXCEPT !.nodes = Append(@, new),
                             !.stack = Append(@, id),
                             !.in_svg = IF tag = svg THEN TRUE ELSE @]
    IN  IF P.err # "none" THEN P
        ELSE IF P.stack = <<>> THEN Push([P EXCEPT !.root = id])
        ELSE LET Q == check_autoclose_on_open(P, tag)
             IN  IF Q.err # "none" THEN Q
                 ELSE IF Q.stack = <<>> THEN error(Q, E_INDEX)
                 ELSE Push([Q EXCEPT !.nodes[Top(Q)].children =
                                         Append(@, id)])

\* open_tag taking the parent from the stack before the autoclose checks
open_tag_early_parent(P, tag, attrs) ==
    LET new == Element(tag, attrs)
        id == Len(P.nodes) + 1
        Push(Q) == [Q EXCEPT !.nodes = Append(@, new),
                             !.stack = Append(@, id),
                             !.in_svg = IF tag = svg THEN TRUE ELSE @]
    IN  IF P.err # "none" THEN P
        ELSE IF P.root = 0 THEN Push([P EXCEPT !.root = id])
        ELSE IF P.stack = <<>> THEN error(P, E_OPEN)
        ELSE LET Q == check_autoclose_on_open(P, tag)
             IN  IF Q.err # "none" THEN Q
                 ELSE Push([Q EXCEPT !.nodes[Top(P)].children =
                                         Append(@, id)])

\* open_tag without the call of check_autoclose_on_open
open_tag_no_autoclose(P, tag, attrs) ==
    LET new == Element(tag, attrs)
        id == Len(P.nodes) + 1
        Push(Q) == [Q EXCEPT !.nodes = Append(@, new),
                             !.stack = Append(@, id),
                             !.in_svg = IF tag = svg THEN TRUE ELSE @]
    IN  IF P.err # "none" THEN P
        ELSE IF P.root = 0 THEN Push([P EXCEPT !.root = id])
        ELSE IF P.stack = <<>> THEN error(P, E_OPEN)
        ELSE Push([P EXCEPT !.nodes[Top(P)].children = Append(@, id)])

open_tag(P, tag, attrs) ==
    LET new == Element(tag, attrs)
        id == Len(P.nodes) + 1
        Push(Q) == [Q EXCEPT !.nodes = Append(@, new),
                             !.stack = Append(@, id),
                             !.in_svg = IF tag = svg THEN TRUE ELSE @]
    IN  IF P.err # "none" THEN P
        ELSE IF P.root = 0 THEN Push([P EXCEPT !.root = id])
        ELSE IF P.stack = <<>> THEN error(P, E_OPEN)
        ELSE LET Q == check_autoclose_on_open(P, tag)
             IN  IF Q.err # "none" THEN Q
                 ELSE IF Q.stack = <<>> THEN error(Q, E_INDEX)
                 ELSE Push([Q EXCEPT !.nodes[Top(Q)].children =
                                         Append(@, id)])

\* self.interesting = re.compile(r'<(/%s|\Z)' % (tag), re.IGNORECASE)
set_specific_cdata_mode(P, tag) ==
    IF P.err # "none" THEN P ELSE [P EXCEPT !.interesting = tag]

\* HTMLParser.clear_cdata_mode: self.interesting = interesting_normal
clear_cdata_mode(P) ==
    IF P.err # "none" THEN P ELSE [P EXCEPT !.interesting = <<>>]

\* handle_starttag without the immediate close of a void element
handle_starttag_open(P, tag, attrs) ==
    IF Str(lower(tag)) \in CDATA_CONTENT_ELEMENTS_V2
    THEN set_specific_cdata_mode(open_tag(P, tag, attrs), tag)
    ELSE open_tag(P, tag, attrs)

handle_starttag(P, tag, attrs) ==
    LET ltag == Str(lower(tag))
        P1 == open_tag(P, tag, attrs)
        P2 == IF ltag \in VOID_TAGS THEN close_tag(P1, tag, FALSE) ELSE P1
    IN  IF ltag \in CDATA_CONTENT_ELEMENTS_V2
        THEN set_specific_cdata_mode(P2, tag)
        ELSE P2

\* handle_endtag without the test for a void tag
handle_endtag_all(P, tag) ==
    close_tag(P, tag, FALSE)

handle_endtag(P, tag) ==
    LET ltag == Str(lower(tag))
    IN  IF ltag \in VOID_TAGS THEN P ELSE close_tag(P, tag, FALSE)

handle_startendtag(P, tag, attrs) ==
    close_tag(open_tag(P, tag, attrs), tag, FALSE)

\* handle_data without the test for an empty stack
handle_data_unguarded(P, data) ==
    IF P.err # "none" THEN P
    ELSE IF P.stack = <<>> THEN error(P, E_INDEX)
    ELSE LET e == Top(P)
             elem == P.nodes[e]
         IN  IF Len(elem.children) > 0
             THEN [P EXCEPT
                     !.nodes[elem.children[Len(elem.children)]].tail =
                         @ \o data]
             ELSE [P EXCEPT !.nodes[e].text = @ \o data]

\* handle_data appending to the text of the stack top whatever its children
handle_data_text_only(P, data) ==
    IF P.err # "none" THEN P
    ELSE IF P.stack = <<>> THEN P
    ELSE [P EXCEPT !.nodes[Top(P)].text = @ \o data]

\* handle_data assigning the data to the slot and dropping what it held
handle_data_replace(P, data) ==
    IF P.err # "none" THEN P
    ELSE IF P.stack = <<>> THEN P
    ELSE LET e == Top(P)
             elem == P.nodes[e]
         IN  IF Len(elem.children) > 0
             THEN [P EXCEPT
                     !.nodes[elem.children[Len(elem.children)]].tail = data]
             ELSE [P EXCEPT !.nodes[e].text = data]

handle_data(P, data) ==
    IF P.err # "none" THEN P
    ELSE IF P.stack = <<>> THEN P
    ELSE LET e == Top(P)
             elem == P.nodes[e]
         IN  IF Len(elem.children) > 0
             THEN [P EXCEPT
                     !.nodes[elem.children[Len(elem.children)]].tail =
                         @ \o data]
             ELSE [P EXCEPT !.nodes[e].text = @ \o data]

\* handle_comment pushing the comment as open_tag pushes an element
handle_comment_push(P, data) ==
    IF P.err # "none" THEN P
    ELSE IF P.stack = <<>> THEN error(P, E_INDEX)
    ELSE LET id == Len(P.nodes) + 1
         IN  [P EXCEPT !.nodes = Append(@, Comment(data)),
                       !.nodes[Top(P)].children = Append(@, id),
                       !.stack = Append(@, id)]

\* handle_comment returning on an empty stack as handle_data does
handle_comment_lenient(P, data) ==
    IF P.err # "none" THEN P
    ELSE IF P.stack = <<>> THEN P
    ELSE LET id == Len(P.nodes) + 1
         IN  [P EXCEPT !.nodes = Append(@, Comment(data)),
                       !.nodes[Top(P)].children = Append(@, id)]

handle_comment(P, data) ==
    IF P.err # "none" THEN P
    ELSE IF P.stack = <<>> THEN error(P, E_INDEX)
    ELSE LET id == Len(P.nodes) + 1
         IN  [P EXCEPT !.nodes = Append(@, Comment(data)),
                       !.nodes[Top(P)].children = Append(@, id)]

(***************************************************************************)
(* Case folding (the hacked lines of parse_starttag and parse_endtag).     *)
(***************************************************************************)
\* should_retain_case without the test of the tag
should_retain_case_flags(P, tag) ==
    P.retain_case \/ P.in_svg

should_retain_case(P, tag) ==
    P.retain_case \/ P.in_svg \/ tag = svg

\* parse_starttag once the tag is scanned: rawtag is rawdata[i+1:k], attrs
\* the (attrname, attrvalue) matches of ATTRFIND that are kept, selfclosing
\* whether the tag ends with "/>"
starttag_names(P, rawtag, attrs, selfclosing) ==
    LET tag == lower(rawtag)
        final_tag == IF should_retain_case(P, None) THEN rawtag ELSE tag
        folded == [i \in 1..Len(attrs) |->
                     IF ~should_retain_case(P, final_tag)
                     THEN <<lower(attrs[i][1]), attrs[i][2]>>
                     ELSE attrs[i]]
    IN  IF P.err # "none" THEN P
        ELSE IF selfclosing THEN handle_startendtag(P, final_tag, folded)
        ELSE handle_starttag(P, final_tag, folded)

\* parse_endtag folding every name, as HTMLParser.parse_endtag does
endtag_names_lower(P, rawtag) ==
    IF P.err # "none" THEN P
    ELSE clear_cdata_mode(handle_endtag(P, lower(rawtag)))

\* parse_endtag once the tag is scanned: rawtag is match.group(1)
endtag_names(P, rawtag) ==
    LET tag == IF ~should_retain_case(P, None) THEN lower(rawtag)
               ELSE rawtag
    IN  IF P.err # "none" THEN P
        ELSE clear_cdata_mode(handle_endtag(P, tag))

(***************************************************************************)
(* The scanner.  Positions are the 0-based offsets of the source.          *)
(***************************************************************************)
\* s[i:i+1]
At(s, i) == IF i >= 0 /\ i < Len(s) THEN s[i + 1] ELSE ""
\* s[i:j]
Slice(s, i, j) == SubSeq(s, i + 1, j)
\* s.startswith(prefix, i)
startswith(s, prefix, i) ==
    /\ i + Len(prefix) <= Len(s)
    /\ SubSeq(s, i + 1, i + Len(prefix)) = prefix

\* the backquote character, which a TLA+ string cannot spell
BACKQUOTE == "backquote"

IsDigit(c) == c \in Digits
IsSpace(c) == c \in Whitespace
\* the first character of an attribute name
IsAttrStart(c) == IsAlpha(c) \/ c = "_"
\* a character of a tag or attribute name
IsNameChar(c) == IsAlpha(c) \/ IsDigit(c) \/ c \in {"-", ".", ":", "_"}

\* whitespace from i
RECURSIVE skip_space(_, _)
skip_space(s, i) == IF IsSpace(At(s, i)) THEN skip_space(s, i + 1) ELSE i

\* name characters from i
RECURSIVE skip_name(_, _)
skip_name(s, i) == IF IsNameChar(At(s, i)) THEN skip_name(s, i + 1) ELSE i

\* s.find(c, i)
RECURSIVE find(_, _, _)
find(s, c, i) ==
    IF i >= Len(s) THEN -1
    ELSE IF s[i + 1] = c THEN i
    ELSE find(s, c, i + 1)

\* s.strip()
RECURSIVE strip(_)
strip(s) ==
    IF s = <<>> THEN s
    ELSE IF IsSpace(s[1]) THEN strip(Tail(s))
    ELSE IF IsSpace(s[Len(s)]) THEN strip(SubSeq(s, 1, Len(s) - 1))
    ELSE s

\* the bare value of LOCATESTARTTAGEND from i: no quote, no >, no space
RECURSIVE skip_bare_locate(_, _)
skip_bare_locate(s, i) ==
    LET c == At(s, i)
    IN  IF c = "" \/ c \in {"'", "\"", ">"} \/ IsSpace(c) THEN i
        ELSE skip_bare_locate(s, i + 1)

\* the bare value of ATTRFIND from i: no space, quote, =, <, > or backquote
RECURSIVE skip_bare_attrfind(_, _)
skip_bare_attrfind(s, i) ==
    LET c == At(s, i)
    IN  IF c = "" \/ c \in {"\"", "'", "=", "<", ">", BACKQUOTE} \/ IsSpace(c)
        THEN i
        ELSE skip_bare_attrfind(s, i + 1)

CHROME_HACK == <<"\"", "=", "\"", "\"">>

\* the value indicator of LOCATESTARTTAGEND after an attribute name that
\* ends at n: the end of the value indicator (an equals sign and a quoted
\* or bare value), or -1
locate_value(s, n) ==
    LET m == skip_space(s, n)
        q == skip_space(s, m + 1)
        c == At(s, q)
    IN  IF At(s, m) # "=" THEN -1
        ELSE IF c \in {"'", "\""}
        THEN LET r == find(s, c, q + 1)
             IN  IF r >= 0 THEN r + 1 ELSE -1
        ELSE LET e == skip_bare_locate(s, q)
             IN  IF e > q THEN e ELSE -1

\* the attribute loop and the trailing whitespace of LOCATESTARTTAGEND
\* from j: the end of the match
RECURSIVE locate_attrs(_, _)
locate_attrs(s, j) ==
    LET k == skip_space(s, j)
        c == At(s, k)
    IN  IF k = j THEN j
        ELSE IF IsAttrStart(c)
        THEN LET n == skip_name(s, k + 1)
                 v == locate_value(s, n)
             IN  locate_attrs(s, IF v >= 0 THEN v ELSE n)
        ELSE IF c = "?" THEN locate_attrs(s, k + 1)
        ELSE IF startswith(s, CHROME_HACK, k) THEN locate_attrs(s, k + 4)
        ELSE k

\* LOCATESTARTTAGEND.match(s, i).end(), where s[i:] starts with < and a
\* letter
LOCATESTARTTAGEND(s, i) == locate_attrs(s, skip_name(s, i + 2))

E_MALFORMED == "HTMLParseError: malformed start tag"
E_JUNK == "HTMLParseError: junk characters in start tag"
E_BAD_END == "HTMLParseError: bad end tag"
E_UNMODELLED == "construct outside the modelled alphabet"

\* the characters after which a start tag counts as incomplete
IsIncompleteNext(next) == IsAlpha(next) \/ next \in {"=", "/"}

\* returns [P, k]: k is the end of the start tag, or -1
check_for_whole_start_tag(P, i) ==
    LET rawdata == P.rawdata
        j == LOCATESTARTTAGEND(rawdata, i)
        next == At(rawdata, j)
    IN  IF next = ">" THEN [P |-> P, k |-> j + 1]
        ELSE IF next = "/"
        THEN IF startswith(rawdata, <<"/", ">">>, j)
             THEN [P |-> P, k |-> j + 2]
             ELSE [P |-> P, k |-> -1]
        ELSE IF next = "" THEN [P |-> P, k |-> -1]
        ELSE IF IsIncompleteNext(next) THEN [P |-> P, k |-> -1]
        ELSE [P |-> error(P, E_MALFORMED), k |-> -1]

\* HTMLParser.unescape: a value without "&" is returned as it is
unescape(s) ==
    IF \A i \in 1..Len(s) : s[i] # "&" THEN s ELSE <<E_UNMODELLED>>

\* ATTRFIND.match(s, k): [ok, name, rest, value, end]
ATTRFIND(s, k) ==
    LET a == skip_space(s, k)
        c == At(s, a)
        n == IF IsAttrStart(c) THEN skip_name(s, a + 1)
             ELSE IF c \in {"?", "\""} THEN a + 1
             ELSE -1
        m == skip_space(s, n)
        q == skip_space(s, m + 1)
        qc == At(s, q)
        r == IF qc \in {"'", "\""} THEN find(s, qc, q + 1) ELSE -1
        vend == IF r >= 0 THEN r + 1 ELSE skip_bare_attrfind(s, q)
    IN  IF n < 0
        THEN [ok |-> FALSE, name |-> <<>>, rest |-> FALSE, value |-> None,
              end |-> k]
        ELSE IF At(s, m) = "="
        THEN [ok |-> TRUE, name |-> Slice(s, a, n), rest |-> TRUE,
              value |-> Slice(s, q, vend), end |-> vend]
        ELSE [ok |-> TRUE, name |-> Slice(s, a, n), rest |-> FALSE,
              value |-> None, end |-> n]

\* the value of an attribute as parse_starttag records it
attr_value(m) ==
    LET v == m.value
        quoted == /\ Len(v) >= 1
                  /\ v[1] \in {"'", "\""}
                  /\ v[1] = v[Len(v)]
    IN  IF ~m.rest THEN None
        ELSE IF quoted THEN unescape(SubSeq(v, 2, Len(v) - 1))
        ELSE v

\* the while loop of parse_starttag keeping every match as an attribute
RECURSIVE scan_attrs_keep(_, _, _, _)
scan_attrs_keep(s, k, endpos, attrs) ==
    IF k >= endpos THEN [k |-> k, attrs |-> attrs]
    ELSE LET m == ATTRFIND(s, k)
         IN  IF ~m.ok THEN [k |-> k, attrs |-> attrs]
             ELSE scan_attrs_keep(s, m.end, endpos,
                                  Append(attrs, <<m.name, attr_value(m)>>))

\* the while loop of parse_starttag: [k, attrs]
RECURSIVE scan_attrs(_, _, _, _)
scan_attrs(s, k, endpos, attrs) ==
    IF k >= endpos THEN [k |-> k, attrs |-> attrs]
    ELSE LET m == ATTRFIND(s, k)
         IN  IF ~m.ok THEN [k |-> k, attrs |-> attrs]
             ELSE IF m.name = <<"?">> \/ m.name = <<"\"">>
             THEN scan_attrs(s, m.end, endpos, attrs)
             ELSE scan_attrs(s, m.end, endpos,
                             Append(attrs, <<m.name, attr_value(m)>>))

\* returns [P, k]: k is the end of the start tag, or -1
parse_starttag(P, i) ==
    LET w == check_for_whole_start_tag(P, i)
        endpos == w.k
        rawdata == P.rawdata
        k0 == skip_name(rawdata, i + 2)
        rawtag == Slice(rawdata, i + 1, k0)
        a == scan_attrs(rawdata, k0, endpos, <<>>)
        end == strip(Slice(rawdata, a.k, endpos))
    IN  IF endpos < 0 THEN w
        ELSE IF end \notin {<<">">>, <<"/", ">">>}
        THEN [P |-> error(P, E_JUNK), k |-> -1]
        ELSE [P |-> starttag_names(P, rawtag, a.attrs,
                                   end = <<"/", ">">>),
              k |-> endpos]

\* returns [P, k]: k is the end of the end tag, or -1
parse_endtag(P, i) ==
    LET rawdata == P.rawdata
        gt == find(rawdata, ">", i + 1)
        j == gt + 1
        a == skip_space(rawdata, i + 2)
        b == skip_name(rawdata, a + 1)
        c == skip_space(rawdata, b)
        matches == IsAlpha(At(rawdata, a)) /\ At(rawdata, c) = ">"
    IN  IF gt < 0 THEN [P |-> P, k |-> -1]
        ELSE IF ~matches THEN [P |-> error(P, E_BAD_END), k |-> -1]
        ELSE [P |-> endtag_names(P, Slice(rawdata, a, b)), k |-> j]

\* the start of the first match of commentclose (two hyphens, whitespace
\* and >) at or after i, or -1
RECURSIVE commentclose(_, _)
commentclose(s, i) ==
    IF i >= Len(s) THEN -1
    ELSE IF /\ startswith(s, <<"-", "-">>, i)
            /\ At(s, skip_space(s, i + 2)) = ">"
    THEN i
    ELSE commentclose(s, i + 1)

\* markupbase.ParserBase.parse_comment
parse_comment(P, i) ==
    LET rawdata == P.rawdata
        j == commentclose(rawdata, i + 4)
    IN  IF j < 0 THEN [P |-> P, k |-> -1]
        ELSE [P |-> handle_comment(P, Slice(rawdata, i + 4, j)),
              k |-> skip_space(rawdata, j + 2) + 1]

\* markupbase.ParserBase.parse_declaration, on the openings a comment cut
\* by a chunk boundary leaves
parse_declaration(P, i) ==
    LET c == At(P.rawdata, i + 2)
    IN  IF c = ">" THEN [P |-> P, k |-> i + 3]
        ELSE IF c \in {"-", ""} THEN [P |-> P, k |-> -1]
        ELSE [P |-> error(P, E_UNMODELLED), k |-> -1]

\* self.interesting.search(s, i).start(), or -1
RECURSIVE interesting_search(_, _, _)
interesting_search(pattern, s, i) ==
    IF i >= Len(s) THEN -1
    ELSE IF pattern = <<>>
    THEN IF s[i + 1] \in {"&", "<"} THEN i
         ELSE interesting_search(pattern, s, i + 1)
    ELSE IF /\ s[i + 1] = "<"
            /\ \/ /\ i + 2 + Len(pattern) <= Len(s)
                  /\ lower(Slice(s, i + 1, i + 2 + Len(pattern)))
                       = <<"/">> \o lower(pattern)
               \/ i + 1 = Len(s)
    THEN i
    ELSE interesting_search(pattern, s, i + 1)

\* HTMLParser.goahead(end=False) from offset i of the buffer.  The loop
\* body is cut into operators so that each value is computed once:
\* goahead_token dispatches on the construct at j, goahead_next takes the
\* [P, k] the construct's parser returned.
RECURSIVE goahead(_, _)

\* self.rawdata = rawdata[i:]
goahead_stop(P, i) ==
    [P EXCEPT !.rawdata = Slice(@, i, Len(@))]

goahead_next(r, j) ==
    IF r.P.err # "none" THEN r.P
    ELSE IF r.k < 0 THEN goahead_stop(r.P, j)
    ELSE goahead(r.P, r.k)

goahead_token(P, j) ==
    LET rawdata == P.rawdata
        n == Len(rawdata)
    IN  IF IsAlpha(At(rawdata, j + 1)) THEN parse_starttag(P, j)
        ELSE IF startswith(rawdata, <<"<", "/">>, j)
        THEN parse_endtag(P, j)
        ELSE IF startswith(rawdata, <<"<", "!", "-", "-">>, j)
        THEN parse_comment(P, j)
        ELSE IF startswith(rawdata, <<"<", "?">>, j)
        THEN [P |-> error(P, E_UNMODELLED), k |-> -1]
        ELSE IF startswith(rawdata, <<"<", "!">>, j)
        THEN parse_declaration(P, j)
        ELSE IF j + 1 < n
        THEN [P |-> handle_data(P, <<"<">>), k |-> j + 1]
        ELSE [P |-> P, k |-> -1]

\* the text before the next interesting character, at j, has been handled
goahead_at(P, j) ==
    IF j = Len(P.rawdata) THEN goahead_stop(P, j)
    ELSE IF P.rawdata[j + 1] # "<" THEN error(P, E_UNMODELLED)
    ELSE goahead_next(goahead_token(P, j), j)

goahead_text(P, i, j) ==
    goahead_at(IF i < j THEN handle_data(P, Slice(P.rawdata, i, j)) ELSE P,
               j)

\* j of the loop: the start of the match of self.interesting, or n
interesting_start(P, i) ==
    LET match == interesting_search(P.interesting, P.rawdata, i)
    IN  IF match >= 0 THEN match ELSE Len(P.rawdata)

goahead(P, i) ==
    IF P.err # "none" THEN P
    ELSE IF i >= Len(P.rawdata) THEN goahead_stop(P, i)
    ELSE goahead_text(P, i, interesting_start(P, i))

\* HTMLParser.feed
feed(P, data) == goahead([P EXCEPT !.rawdata = @ \o data], 0)

\* parse_html: the parser after parser.feed(html); the call raises when
\* err is set and returns root otherwise
parse_html(html, retain_case) == feed(NewParser(retain_case), html)

\* parse_html handing back an unfinished tree: the exception is swallowed
returned_partial(P) == <<"return", P.root>>

\* the return of parse_html were the end of the input an error for a
\* stack or a buffer that is not empty
returned_closed(P) ==
    IF P.err # "none" THEN <<"raise", P.err>>
    ELSE IF P.stack # <<>> \/ P.rawdata # <<>>
    THEN <<"raise", "HTMLParseError: EOF in middle of construct">>
    ELSE <<"return", P.root>>

\* what parse_html does once the parser has been fed: it raises the
\* exception that left the parser, or returns parser.root (0 is None)
returned(P) ==
    IF P.err # "none" THEN <<"raise", P.err>> ELSE <<"return", P.root>>

(***************************************************************************)
(* Spec: the tree builder driven by tokenizer events.  A behaviour is one  *)
(* parse: the events of a document whose start tags are drawn from one     *)
(* vocabulary, until an exception leaves the parser.                       *)
(***************************************************************************)
Tok(tag, attrs, selfclosing) ==
    [tag |-> tag, attrs |-> attrs, selfclosing |-> selfclosing]

t_ul == <<"u","l">>
t_li == <<"l","i">>
t_LI == <<"L","I">>
t_dt == <<"d","t">>
t_dd == <<"d","d">>
t_p == <<"p">>
t_div == <<"d","i","v">>
t_DIV == <<"D","I","V">>
t_br == <<"b","r">>
t_span == <<"s","p","a","n">>
t_INPUT == <<"I","N","P","U","T">>
t_RECT == <<"R","E","C","T">>
t_SVG == <<"S","V","G">>
a_CLASS == <<"C","L","A","S","S">>
a_viewBox == <<"v","i","e","w","B","o","x">>
a_TYPE == <<"T","Y","P","E">>
v_x == <<"x">>

\* <ul> <li> <LI> | <dt> <dd> | <p> <div> <br> |
\* <svg viewBox="x"> <RECT CLASS/> <DIV CLASS="x"> |
\* <span> <div> <INPUT TYPE="x"> | <li> <p>
Vocabs ==
    { {Tok(t_ul, <<>>, FALSE), Tok(t_li, <<>>, FALSE),
       Tok(t_LI, <<>>, FALSE)},
      {Tok(t_dt, <<>>, FALSE), Tok(t_dd, <<>>, FALSE)},
      {Tok(t_p, <<>>, FALSE), Tok(t_div, <<>>, FALSE),
       Tok(t_br, <<>>, FALSE)},
      {Tok(svg, <<<<a_viewBox, v_x>>>>, FALSE),
       Tok(t_RECT, <<<<a_CLASS, None>>>>, TRUE),
       Tok(t_DIV, <<<<a_CLASS, v_x>>>>, FALSE)},
      {Tok(t_span, <<>>, FALSE), Tok(t_div, <<>>, FALSE),
       Tok(t_INPUT, <<<<a_TYPE, v_x>>>>, FALSE)},
      {Tok(t_li, <<>>, FALSE), Tok(t_p, <<>>, FALSE)} }

\* the names an end tag of the document may carry: those of its start tags
\* that are not self-closed, as written and in lowercase, and SVG for svg
EndNames(V) ==
    LET open == {t \in V : ~t.selfclosing}
    IN  {t.tag : t \in open} \cup {lower(t.tag) : t \in open}
            \cup {t_SVG : t \in {u \in open : u.tag = svg}}

DataSet == {<<"x">>}

NoEvent == [kind |-> "none", tag |-> <<>>, attrs |-> <<>>, data |-> <<>>]

Init ==
    /\ \E rc \in BOOLEAN : p = NewParser(rc)
    /\ pre = p
    /\ ev = NoEvent
    /\ vocab \in Vocabs
    /\ ndata = 0
    /\ rest = <<>>
    /\ fed = <<>>

StartTag ==
    \E t \in vocab :
        /\ ~t.selfclosing
        /\ p.err = "none"
        /\ Len(p.nodes) < MaxNodes
        /\ p' = starttag_names(p, t.tag, t.attrs, FALSE)
        /\ pre' = p
        /\ ev' = [kind |-> "start", tag |-> t.tag, attrs |-> t.attrs,
                  data |-> <<>>]
        /\ UNCHANGED <<vocab, ndata, rest, fed>>

StartEndTag ==
    \E t \in vocab :
        /\ t.selfclosing
        /\ p.err = "none"
        /\ Len(p.nodes) < MaxNodes
        /\ p' = starttag_names(p, t.tag, t.attrs, TRUE)
        /\ pre' = p
        /\ ev' = [kind |-> "startend", tag |-> t.tag, attrs |-> t.attrs,
                  data |-> <<>>]
        /\ UNCHANGED <<vocab, ndata, rest, fed>>

EndTag ==
    \E tag \in EndNames(vocab) :
        /\ p.err = "none"
        /\ p' = endtag_names(p, tag)
        /\ pre' = p
        /\ ev' = [kind |-> "end", tag |-> tag, attrs |-> <<>>,
                  data |-> <<>>]
        /\ UNCHANGED <<vocab, ndata, rest, fed>>

Data ==
    \E d \in DataSet :
        /\ p.err = "none"
        /\ ndata < MaxData
        /\ p' = handle_data(p, d)
        /\ pre' = p
        /\ ev' = [kind |-> "data", tag |-> <<>>, attrs |-> <<>>, data |-> d]
        /\ ndata' = ndata + 1
        /\ UNCHANGED <<vocab, rest, fed>>

CommentEvent ==
    \E d \in DataSet :
        /\ p.err = "none"
        /\ Len(p.nodes) < MaxNodes
        /\ p' = handle_comment(p, d)
        /\ pre' = p
        /\ ev' = [kind |-> "comment", tag |-> <<>>, attrs |-> <<>>,
                  data |-> d]
        /\ UNCHANGED <<vocab, ndata, rest, fed>>

Next == StartTag \/ StartEndTag \/ EndTag \/ Data \/ CommentEvent

Spec == Init /\ [][Next]_vars

(***************************************************************************)
(* SpecFeed: parse_html's parser fed one document in consecutive chunks,   *)
(* cut at any offsets; a chunk may be empty.  The documents:               *)
(*   doc_div      <div>x</div>                                             *)
(*   doc_input    <div><input type="text"></div>                           *)
(*   doc_ul       <ul><li>a<li>b</ul>                                      *)
(*   doc_dl       <dl><dt>Term<dd>Def</dl>                                 *)
(*   doc_DIV      <DIV CLASS="x">hi</DIV>                                  *)
(*   doc_svg      <svg><RECT/></svg>                                       *)
(*   doc_ie       <a href="x" ?>                                           *)
(*   doc_chrome   <a href="x" "="">                                        *)
(*   doc_span     <span></div>                                             *)
(*   doc_text     hi                                                       *)
(*   doc_svg_svg  <svg><svg></svg><RECT/></svg>                            *)
(*   doc_comment  <p><!--c-->t</p>                                         *)
(*   doc_script   <script>a<b></script>                                    *)
(*   doc_open     <ul><li>a                                                *)
(*   doc_cut      <div>x</di                                               *)
(*   doc_empty    the empty text                                           *)
(*   doc_ie_id    <a href="x" ? id="y">                                    *)
(*   doc_chrome_id  <a "="" id="y">                                        *)
(*   doc_scriptx  <script></scriptx>                                       *)
(*   doc_err      <p></b>x<i>                                              *)
(***************************************************************************)
doc_div ==
    <<"<","d","i","v",">","x","<","/","d","i","v",">">>
doc_input ==
    <<"<","d","i","v",">","<","i","n","p","u","t"," ","t","y","p","e","=",
      "\"","t","e","x","t","\"",">","<","/","d","i","v",">">>
doc_ul ==
    <<"<","u","l",">","<","l","i",">","a","<","l","i",">","b","<","/","u",
      "l",">">>
doc_dl ==
    <<"<","d","l",">","<","d","t",">","T","e","r","m","<","d","d",">","D",
      "e","f","<","/","d","l",">">>
doc_DIV ==
    <<"<","D","I","V"," ","C","L","A","S","S","=","\"","x","\"",">","h","i",
      "<","/","D","I","V",">">>
doc_svg ==
    <<"<","s","v","g",">","<","R","E","C","T","/",">","<","/","s","v","g",
      ">">>
doc_ie ==
    <<"<","a"," ","h","r","e","f","=","\"","x","\""," ","?",">">>
doc_chrome ==
    <<"<","a"," ","h","r","e","f","=","\"","x","\""," ","\"","=","\"","\"",
      ">">>
doc_span ==
    <<"<","s","p","a","n",">","<","/","d","i","v",">">>
doc_text ==
    <<"h","i">>
doc_svg_svg ==
    <<"<","s","v","g",">","<","s","v","g",">","<","/","s","v","g",">","<",
      "R","E","C","T","/",">","<","/","s","v","g",">">>
doc_comment ==
    <<"<","p",">","<","!","-","-","c","-","-",">","t","<","/","p",">">>
doc_script ==
    <<"<","s","c","r","i","p","t",">","a","<","b",">","<","/","s","c","r",
      "i","p","t",">">>
doc_open ==
    <<"<","u","l",">","<","l","i",">","a">>
doc_cut ==
    <<"<","d","i","v",">","x","<","/","d","i">>
doc_empty ==
    <<>>
doc_ie_id ==
    <<"<","a"," ","h","r","e","f","=","\"","x","\""," ","?"," ","i","d","=",
      "\"","y","\"",">">>
doc_scriptx ==
    <<"<","s","c","r","i","p","t",">","<","/","s","c","r","i","p","t","x",
      ">">>
doc_err ==
    <<"<","p",">","<","/","b",">","x","<","i",">">>
doc_chrome_id ==
    <<"<","a"," ","\"","=","\"","\""," ","i","d","=","\"","y","\"",">">>

Docs ==
    {doc_div,
     doc_input,
     doc_ul,
     doc_dl,
     doc_DIV,
     doc_svg,
     doc_ie,
     doc_chrome,
     doc_span,
     doc_text,
     doc_svg_svg,
     doc_comment,
     doc_script,
     doc_open,
     doc_cut,
     doc_empty,
     doc_ie_id,
     doc_chrome_id,
     doc_scriptx,
     doc_err}

InitFeed ==
    /\ \E rc \in BOOLEAN : p = NewParser(rc)
    /\ pre = p
    /\ ev = NoEvent
    /\ vocab = {}
    /\ ndata = 0
    /\ rest \in Docs
    /\ fed = <<>>

Feed ==
    \E n \in 0..Len(rest) :
        LET data == SubSeq(rest, 1, n)
        IN  /\ p.err = "none"
            /\ p' = feed(p, data)
            /\ pre' = p
            /\ ev' = [kind |-> "feed", tag |-> <<>>, attrs |-> <<>>,
                      data |-> data]
            /\ rest' = SubSeq(rest, n + 1, Len(rest))
            /\ fed' = fed \o data
            /\ UNCHANGED <<vocab, ndata>>

NextFeed == Feed

SpecFeed == InitFeed /\ [][NextFeed]_vars

(***************************************************************************)
(* Properties.  pre is the parser before the last step, ev the event (or   *)
(* the chunk) of that step, p the parser after it.                         *)
(***************************************************************************)
\* what a caller sees of a parse: the exception, or the tree
Outcome(P) ==
    IF P.err # "none" THEN <<"raises">> ELSE <<P.root, P.nodes>>

IsOpen == ev.kind \in {"start", "startend"} /\ pre.err = "none"

IsClose == ev.kind = "end" /\ pre.err = "none"

\* the folded name of the tag of the event
Folded == Str(lower(ev.tag))

\* the element is popped again within the event that opens it
Popped == ev.kind = "startend" \/ Folded \in VOID_TAGS

\* the number open_tag gives a new element
NewId == Len(pre.nodes) + 1

\* the element with this number has a configured set that holds the folded
\* name of the tag of the event
Candidate(id) ==
    LET key == Str(lower(pre.nodes[id].tag))
    IN  key \in DOMAIN AUTOCLOSE_ON_OPEN /\ Folded \in AUTOCLOSE_ON_OPEN[key]

\* the event placed a new element as the last child of parent, on top of
\* the stack below
PlacedOn(parent, below) ==
    /\ p.err = "none"
    /\ Len(p.nodes) = NewId
    /\ p.nodes[parent].children = Append(pre.nodes[parent].children, NewId)
    /\ p.stack = IF Popped THEN below ELSE Append(below, NewId)

\* some open element is named svg, in any case
InForeign(P) ==
    \E i \in 1..Len(P.stack) : lower(P.nodes[P.stack[i]].tag) = svg

AttrNames(attrs) == [i \in 1..Len(attrs) |-> attrs[i][1]]

\* C1: for every document and every way of cutting it into chunks fed one
\* after another, the outcome (the tree, or the exception) is that of
\* feeding the whole document in one call.
C1_ChunkingEquivalence ==
    (rest = <<>> \/ p.err # "none")
        => Outcome(p) = Outcome(parse_html(fed \o rest, p.retain_case))

\* C2: <ul><li>a<li>b</ul> and <dl><dt>Term<dd>Def</dl> parse without an
\* exception to a root with exactly two children, siblings, that carry
\* the texts: the close tag of the parent is accepted while its last child
\* is still open.
C2_ParentCloseAccepted ==
    (rest = <<>> /\ fed \in {doc_ul, doc_dl})
        => /\ p.err = "none"
           /\ p.root = 1
           /\ Len(p.nodes) = 3
           /\ p.nodes[1].children = <<2, 3>>
           /\ p.nodes[2].children = <<>>
           /\ p.nodes[3].children = <<>>
           /\ <<p.nodes[2].text, p.nodes[3].text>> =
                IF fed = doc_ul THEN << <<"a">>, <<"b">> >>
                ELSE << <<"T","e","r","m">>, <<"D","e","f">> >>

\* C3: a tag opened on a stack of depth >= 2.  When the stack top T is a
\* candidate (its configured set holds the folded name) and the element
\* below T is not, exactly T is popped and the new element is the last
\* child of the element below T, and pushed.  When T is no candidate,
\* nothing is popped and the new element is the last child of T.
C3_AutocloseOnOpen ==
    (IsOpen /\ Len(pre.stack) >= 2)
        => LET n == Len(pre.stack)
               T == pre.stack[n]
               B == pre.stack[n - 1]
           IN  /\ (Candidate(T) /\ ~Candidate(B))
                    => PlacedOn(B, SubSeq(pre.stack, 1, n - 1))
               /\ ~Candidate(T) => PlacedOn(T, pre.stack)

C3_Witness ==
    /\ IsOpen
    /\ Len(pre.stack) = 2
    /\ Candidate(pre.stack[2])
    /\ ~Candidate(pre.stack[1])
    /\ ev.tag = t_LI
    /\ p.stack = <<1, 3>>
    /\ p.nodes[1].children = <<2, 3>>

\* C4 as stated: when every open element down to stack position 0 is a
\* candidate for the newly opened tag, the whole stack, the root included,
\* is closed before the new element is placed.
C4_WholeStackClosed ==
    (/\ IsOpen
     /\ pre.stack # <<>>
     /\ \A i \in 1..Len(pre.stack) : Candidate(pre.stack[i]))
        => \A i \in 1..Len(pre.stack) :
               \A j \in 1..Len(p.stack) : p.stack[j] # pre.stack[i]

\* C4 amended: when every open element down to stack position 0 is a
\* candidate for the newly opened tag, no element is closed: the new
\* element becomes the last child of the stack top, on top of the stack as
\* it was.
C4_NothingClosed ==
    (/\ IsOpen
     /\ pre.stack # <<>>
     /\ \A i \in 1..Len(pre.stack) : Candidate(pre.stack[i]))
        => PlacedOn(Top(pre), pre.stack)

C4_Witness ==
    /\ IsOpen
    /\ Len(pre.stack) = 2
    /\ \A i \in 1..2 : Candidate(pre.stack[i])
    /\ p.stack = <<1, 2, 3>>
    /\ p.nodes[2].children = <<3>>

\* the name parse_endtag hands to handle_endtag
ClosedName ==
    IF should_retain_case(pre, None) THEN ev.tag ELSE lower(ev.tag)

\* C5: an end tag (a close that is not forced) whose name is not the name
\* of the stack top raises "Unexpected close tag" and leaves the stack as
\* it was.
C5_MismatchedClose ==
    (/\ IsClose
     /\ Folded \notin VOID_TAGS
     /\ pre.stack # <<>>
     /\ pre.nodes[Top(pre)].tag # ClosedName)
        => p.err = E_CLOSE /\ p.stack = pre.stack /\ p.nodes = pre.nodes

C5_Witness ==
    /\ IsClose
    /\ ev.tag = t_div
    /\ pre.stack = <<1>>
    /\ pre.nodes[1].tag = t_span
    /\ p.err = E_CLOSE
    /\ p.stack = <<1>>

\* C6: an end tag with a name that is not void, met on an empty stack
\* (before any root was opened, or after the root was closed), raises
\* "Unexpected close tag at top of tree".
C6_CloseOnEmptyStack ==
    (IsClose /\ Folded \notin VOID_TAGS /\ pre.stack = <<>>)
        => p.err = E_CLOSE_TOP /\ p.root = pre.root /\ p.nodes = pre.nodes

C6_Witness ==
    /\ IsClose
    /\ Folded \notin VOID_TAGS
    /\ pre.root = 1
    /\ pre.stack = <<>>
    /\ p.err = E_CLOSE_TOP

\* every element but the root is a child of an element
OneTopLevel(P) ==
    \A id \in 1..Len(P.nodes) :
        id # P.root =>
            \E parent \in 1..Len(P.nodes) :
                \E i \in 1..Len(P.nodes[parent].children) :
                    P.nodes[parent].children[i] = id

\* C7: once a root exists and the stack is empty, a start tag raises
\* "Unexpected open tag" and creates nothing; no step replaces the root,
\* and every other node has a parent.
C7_OpenAfterRootClosed ==
    /\ (IsOpen /\ pre.root # 0 /\ pre.stack = <<>>)
         => p.err = E_OPEN /\ p.nodes = pre.nodes /\ p.stack = <<>>
    /\ pre.root # 0 => p.root = pre.root
    /\ OneTopLevel(p)

C7_Witness ==
    /\ IsOpen
    /\ pre.root = 1
    /\ Str(lower(pre.nodes[1].tag)) \in VOID_TAGS
    /\ pre.stack = <<>>
    /\ p.err = E_OPEN
    /\ p.root = 1

IsVoid(node) ==
    node.kind = "element" /\ Str(lower(node.tag)) \in VOID_TAGS

\* C8: in every state a void element has no child and no leading text and
\* is not on the stack of open elements: the start tag event that created
\* it popped it.
C8_VoidElements ==
    /\ \A id \in 1..Len(p.nodes) :
           IsVoid(p.nodes[id])
               => p.nodes[id].children = <<>> /\ p.nodes[id].text = <<>>
    /\ \A i \in 1..Len(p.stack) : ~IsVoid(p.nodes[p.stack[i]])

C8_Witness ==
    /\ ev.kind = "data"
    /\ Len(p.nodes) = 2
    /\ p.nodes[2].tag = t_INPUT
    /\ p.nodes[2].tail = <<"x">>
    /\ p.nodes[1].children = <<2>>
    /\ p.stack = <<1>>

\* the element the event created
Created == p.nodes[NewId]

\* C9 as stated: outside foreign content, with retain_case false the tag
\* and the attribute names of a created element are the lowercase forms of
\* the names in the input, with retain_case true they are as written.
C9_CaseFolding ==
    (IsOpen /\ ~InForeign(pre) /\ Len(p.nodes) = NewId)
        => IF pre.retain_case
           THEN /\ Created.tag = ev.tag
                /\ AttrNames(Created.attrib) = AttrNames(ev.attrs)
           ELSE /\ Created.tag = lower(ev.tag)
                /\ AttrNames(Created.attrib) =
                     [i \in 1..Len(ev.attrs) |-> lower(ev.attrs[i][1])]

\* C9 amended: outside foreign content, with retain_case false the tag of
\* a created element is the lowercase form of the name in the input, and
\* so are its attribute names unless that tag is svg, whose attribute
\* names are as written; with retain_case true all are as written.
C9_CaseFoldingButSvg ==
    (IsOpen /\ ~InForeign(pre) /\ Len(p.nodes) = NewId)
        => IF pre.retain_case
           THEN /\ Created.tag = ev.tag
                /\ AttrNames(Created.attrib) = AttrNames(ev.attrs)
           ELSE /\ Created.tag = lower(ev.tag)
                /\ AttrNames(Created.attrib) =
                     IF lower(ev.tag) = svg THEN AttrNames(ev.attrs)
                     ELSE [i \in 1..Len(ev.attrs) |->
                             lower(ev.attrs[i][1])]

C9_Witness ==
    /\ IsOpen
    /\ ~pre.retain_case
    /\ pre.stack = <<>>
    /\ ev.tag = svg
    /\ Len(p.nodes) = 1
    /\ AttrNames(p.nodes[1].attrib) = <<a_viewBox>>

\* C10: with retain_case false, a tag named svg opened outside foreign
\* content creates an element with tag svg, and an element opened while an
\* svg element is open keeps its tag and attribute names as written.
C10_ForeignContentKeepsCase ==
    (IsOpen /\ ~pre.retain_case /\ Len(p.nodes) = NewId)
        => IF InForeign(pre)
           THEN /\ Created.tag = ev.tag
                /\ AttrNames(Created.attrib) = AttrNames(ev.attrs)
           ELSE lower(ev.tag) = svg => Created.tag = svg

\* C11: while an element with tag svg is open the svg flag is set: closing
\* an svg element opened inside another one does not clear the flag, which
\* stays set until the outermost open svg element is closed.
C11_SvgFlagNests ==
    (\E i \in 1..Len(p.stack) : p.nodes[p.stack[i]].tag = svg) => p.in_svg

\* the text holds no tag
NoTags(s) == \A i \in 1..Len(s) : s[i] # "<"

\* C12 as stated: a parse of a text without any tag, the empty text
\* included, fails instead of returning a value.
C12_EmptyDocumentFails ==
    (rest = <<>> /\ ev.kind = "feed" /\ NoTags(fed))
        => returned(p)[1] = "raise"

\* C12 amended: a parse of a text without any tag, the empty text
\* included, raises nothing and returns None.
C12_EmptyDocumentReturnsNone ==
    (rest = <<>> /\ ev.kind = "feed" /\ NoTags(fed))
        => returned(p) = <<"return", 0>> /\ p.nodes = <<>>

C12_Witness ==
    /\ rest = <<>>
    /\ ev.kind = "feed"
    /\ fed = doc_text
    /\ returned(p) = <<"return", 0>>

IsData == ev.kind = "data" /\ pre.err = "none"

\* the last child of the element, or 0
LastChild(P, id) ==
    LET c == P.nodes[id].children
    IN  IF c = <<>> THEN 0 ELSE c[Len(c)]

\* C13: a text event on an empty stack changes nothing and raises nothing;
\* on a stack whose top has a child it appends the data to the tail of the
\* last child of the top; on a stack whose top has no child it appends the
\* data to the text of the top.  Nothing else changes.
C13_HandleText ==
    IsData
        => IF pre.stack = <<>> THEN p = pre
           ELSE IF LastChild(pre, Top(pre)) # 0
           THEN p = [pre EXCEPT !.nodes[LastChild(pre, Top(pre))].tail =
                                    @ \o ev.data]
           ELSE p = [pre EXCEPT !.nodes[Top(pre)].text = @ \o ev.data]

C13_Witness ==
    /\ IsData
    /\ pre.stack = <<1>>
    /\ pre.nodes[1].children = <<2>>
    /\ pre.nodes[2].kind = "element"
    /\ p.nodes[2].tail = ev.data
    /\ p.nodes[1].text = <<>>
    /\ p.nodes[2].text = <<>>

a_href == <<"h","r","e","f">>
a_id == <<"i","d">>
v_y == <<"y">>

\* the documents made of one start tag with an artifact, and the
\* attributes written in each
Artifacts == {doc_ie, doc_chrome, doc_ie_id, doc_chrome_id}

Written(doc) ==
    IF doc \in {doc_ie, doc_chrome} THEN << <<a_href, v_x>> >>
    ELSE IF doc = doc_ie_id THEN << <<a_href, v_x>>, <<a_id, v_y>> >>
    ELSE << <<a_id, v_y>> >>

\* C14: a start tag with the ? artifact or the Chrome artifact parses to an
\* element whose attributes are the attributes written before and after
\* the artifact, in their order, with their values; the artifact is no
\* attribute.  The only exception raised is that of a buffer that ends
\* inside the Chrome artifact, before any attribute is scanned.
C14_ArtifactsDiscarded ==
    (fed \o rest \in Artifacts)
        => /\ p.err # "none"
                => /\ p.err = E_MALFORMED
                   /\ p.nodes = <<>>
                   /\ rest # <<>>
                   /\ rest[1] \in {"=", "\""}
           /\ (p.err = "none" /\ rest = <<>> /\ ev.kind = "feed")
                => /\ Len(p.nodes) = 1
                   /\ p.root = 1
                   /\ p.nodes[1].tag = <<"a">>
           /\ Len(p.nodes) >= 1
                => p.nodes[1].attrib = Written(fed \o rest)

C14_Witness ==
    /\ rest = <<>>
    /\ fed = doc_ie_id
    /\ p.err = "none"
    /\ p.root = 1
    /\ p.nodes[1].tag = <<"a">>
    /\ p.nodes[1].attrib = << <<a_href, v_x>>, <<a_id, v_y>> >>

\* the element is a script or style element
IsRawText(node) ==
    node.kind = "element" /\ Str(lower(node.tag)) \in CDATA_CONTENT_ELEMENTS_V2

\* C15: the raw text mode is on exactly while the script or style element
\* that set it is the stack top, and while it is on nothing but text
\* reaches the tree builder: the element gets no child and no open,
\* comment or close event for another name raises an exception.
C15_RawTextMode ==
    /\ p.interesting # <<>>
         => /\ p.err = "none"
            /\ p.stack # <<>>
            /\ p.nodes[Top(p)].tag = p.interesting
            /\ p.nodes[Top(p)].children = <<>>
    /\ (p.err = "none" /\ p.stack # <<>> /\ IsRawText(p.nodes[Top(p)]))
         => p.interesting = p.nodes[Top(p)].tag

\* C16: once an exception has left the parser, parse_html raises it and
\* returns no tree, whatever was built; and nothing that follows the
\* construct that raised it has been processed: the parser holds the tree
\* and the stack of a parse of a proper prefix of the text fed.
C16_ErrorAborts ==
    p.err # "none"
        => /\ returned(p) = <<"raise", p.err>>
           /\ \E k \in 0..(Len(fed) - 1) :
                  LET Q == parse_html(SubSeq(fed, 1, k), p.retain_case)
                  IN  /\ Q.err = "none"
                      /\ Q.root = p.root
                      /\ Q.nodes = p.nodes
                      /\ Q.stack = p.stack

C16_Witness ==
    /\ fed = doc_err
    /\ p.err = E_CLOSE
    /\ p.root = 1
    /\ p.nodes = <<Element(t_p, <<>>)>>
    /\ returned(p)[1] = "raise"

\* C17: a comment event on a stack that is not empty appends a new comment
\* node, holding the data, as the last child of the stack top and changes
\* nothing else: the stack is as it was.  A text event that finds a
\* comment as the last child of the stack top appends the data to the tail
\* of the comment and to nothing else.
C17_HandleComment ==
    /\ (ev.kind = "comment" /\ pre.err = "none" /\ pre.stack # <<>>)
         => /\ p.err = "none"
            /\ p.stack = pre.stack
            /\ p.nodes = [Append(pre.nodes, Comment(ev.data)) EXCEPT
                            ![Top(pre)].children = Append(@, NewId)]
            /\ p.root = pre.root
    /\ (/\ IsData
        /\ pre.stack # <<>>
        /\ LastChild(pre, Top(pre)) # 0
        /\ pre.nodes[LastChild(pre, Top(pre))].kind = "comment")
         => LET c == LastChild(pre, Top(pre))
            IN  /\ p.nodes[c].tail = pre.nodes[c].tail \o ev.data
                /\ p.nodes[c].text = pre.nodes[c].text
                /\ p.nodes[c].children = <<>>
                /\ p.nodes[Top(pre)] = pre.nodes[Top(pre)]
                /\ p.stack = pre.stack

C17_Witness ==
    /\ IsData
    /\ pre.stack = <<1>>
    /\ pre.nodes[1].children = <<2>>
    /\ pre.nodes[2].kind = "comment"
    /\ p.nodes[2].tail = ev.data
    /\ p.nodes[2].text = pre.nodes[2].text
    /\ p.nodes[1].text = <<>>
    /\ p.stack = <<1>>

\* the places the node holds among the children of the nodes
Parents(P, id) ==
    UNION {{<<parent, i>> :
               i \in {j \in 1..Len(P.nodes[parent].children) :
                          P.nodes[parent].children[j] = id}} :
           parent \in 1..Len(P.nodes)}

\* C18: the stack, when not empty, starts with the root and each of its
\* elements is a child of the one below it; the root has no parent and
\* every other node is a child of exactly one node, at one place; a step
\* only appends to the children of a node, so that no node changes its
\* parent, and no step changes the root.
C18_AncestorChain ==
    /\ p.stack # <<>>
         => /\ p.stack[1] = p.root
            /\ \A i \in 1..(Len(p.stack) - 1) :
                   \E j \in 1..Len(p.nodes[p.stack[i]].children) :
                       p.nodes[p.stack[i]].children[j] = p.stack[i + 1]
    /\ \A id \in 1..Len(p.nodes) :
           Cardinality(Parents(p, id)) = IF id = p.root THEN 0 ELSE 1
    /\ \A id \in 1..Len(pre.nodes) :
           SubSeq(p.nodes[id].children, 1, Len(pre.nodes[id].children))
               = pre.nodes[id].children
    /\ pre.root # 0 => p.root = pre.root

C18_Witness ==
    /\ IsOpen
    /\ pre.stack = <<1, 2>>
    /\ p.stack = <<1, 3>>
    /\ p.root = 1
    /\ Parents(p, 2) = {<<1, 1>>}
    /\ Parents(p, 3) = {<<1, 2>>}

\* C19: an end tag whose lowercased name is a void tag raises nothing and
\* leaves the stack, the nodes, the root and the svg flag as they were,
\* whatever the stack holds.
C19_VoidEndTagIgnored ==
    (IsClose /\ Folded \in VOID_TAGS)
        => /\ p.err = "none"
           /\ p.stack = pre.stack
           /\ p.nodes = pre.nodes
           /\ p.root = pre.root
           /\ p.in_svg = pre.in_svg

C19_Witness ==
    /\ IsClose
    /\ Folded \in VOID_TAGS
    /\ pre.stack # <<>>
    /\ lower(pre.nodes[Top(pre)].tag) # lower(ev.tag)
    /\ p.err = "none"
    /\ p.stack = pre.stack

\* C20: the name of an end tag is folded to lowercase only when neither
\* retain_case nor the svg flag is set when the tag is read, and the end
\* tag closes the stack top only when the name so obtained equals the tag
\* of the stack top character by character; otherwise it raises
\* "Unexpected close tag".
C20_CloseTagFolding ==
    (IsClose /\ Folded \notin VOID_TAGS /\ pre.stack # <<>>)
        => LET name == IF pre.retain_case \/ pre.in_svg THEN ev.tag
                       ELSE lower(ev.tag)
           IN  IF pre.nodes[Top(pre)].tag = name
               THEN /\ p.err = "none"
                    /\ p.stack = SubSeq(pre.stack, 1, Len(pre.stack) - 1)
               ELSE /\ p.err = E_CLOSE
                    /\ p.stack = pre.stack

\* <svg></SVG> with retain_case false
C20_Witness ==
    /\ IsClose
    /\ ~pre.retain_case
    /\ pre.in_svg
    /\ ev.tag = t_SVG
    /\ pre.stack = <<1>>
    /\ pre.nodes[1].tag = svg
    /\ p.err = E_CLOSE

\* Pieces of text for the split of C21
Pieces == {<<"a">>, <<"b", "c">>, <<" ">>}

\* C21: at every reachable parser state, two consecutive text events with
\* the strings a and b leave exactly the parser (tree and stack) that the
\* single text event with a followed by b leaves; the pieces are joined in
\* order on the same text or tail slot.
C21_TextSplit ==
    p.err = "none"
        => \A a \in Pieces : \A b \in Pieces :
               handle_data(handle_data(p, a), b) = handle_data(p, a \o b)

\* "Term" of <dl><dt>Term... arriving as "T" and then "e": the second text
\* event lands on the text slot the first one filled
C21_Witness ==
    /\ ev.kind = "feed"
    /\ ev.data = <<"e">>
    /\ pre.err = "none"
    /\ pre.stack = <<1, 2>>
    /\ pre.nodes[2].text = <<"T">>
    /\ pre.rawdata = <<>>
    /\ p = handle_data(pre, ev.data)
    /\ p.nodes[2].text = <<"T", "e">>
    /\ p = handle_data([pre EXCEPT !.nodes[2].text = <<>>], <<"T", "e">>)

\* The tag names the autoclose walk is probed with: the names found in a
\* configured set, lowercase and as written in uppercase, and names found
\* in none
ProbeTags == {t_li, t_LI, t_dt, t_dd, t_p, t_div, t_DIV, t_ul, svg}

\* Two configured sets that share a name are one set, and it holds the keys
\* of both: an element whose set holds a name is never opened above another
\* such element without closing it
TableClasses ==
    \A k1 \in AUTOCLOSE_KEYS : \A k2 \in AUTOCLOSE_KEYS :
        AUTOCLOSE_ON_OPEN[k1] \cap AUTOCLOSE_ON_OPEN[k2] # {}
            => /\ AUTOCLOSE_ON_OPEN[k1] = AUTOCLOSE_ON_OPEN[k2]
               /\ k2 \in AUTOCLOSE_ON_OPEN[k1]

\* C22: in every stack that open and close events build from an empty
\* parser, for every tag name and both settings of retain_case, the
\* autoclose walk returns 0 or 1: one open tag force-closes at most one
\* element.  The walk is probed in the states that tag events reach; a
\* text, a comment or an exception leaves the stack of the state before
\* it.  The configured table is such that no two stacked elements are
\* candidates for one name (checked on the table in the initial state).
C22_AutocloseAtMostOne ==
    /\ ev = NoEvent => TableClasses
    /\ (p.err = "none" /\ ev.kind \notin {"data", "comment"})
         => \A tag \in ProbeTags :
                find_autoclose_on_open(p, tag) \in {0, 1}

\* <li><p> and then <p>: both open elements have a configured set, the
\* walk counts the p alone and the new p takes its place
C22_Witness ==
    /\ IsOpen
    /\ ev.tag = t_p
    /\ Len(pre.stack) = 2
    /\ pre.nodes[pre.stack[1]].tag = t_li
    /\ pre.nodes[pre.stack[2]].tag = t_p
    /\ find_autoclose_on_open(pre, ev.tag) = 1
    /\ p.err = "none"
    /\ Len(p.stack) = 2
    /\ p.stack[1] = pre.stack[1]
    /\ p.stack[2] = NewId

\* C23: in every reachable state, when the svg flag is set an element whose
\* tag is exactly svg is on the stack; the flag is never set with no svg
\* element open.
C23_SvgFlagImpliesSvgOpen ==
    p.in_svg => \E i \in 1..Len(p.stack) : p.nodes[p.stack[i]].tag = svg

\* <svg><DIV></DIV>: an element inside the svg element is closed, the flag
\* stays set and the svg element is the whole stack
C23_Witness ==
    /\ IsClose
    /\ pre.in_svg
    /\ Len(pre.stack) = 2
    /\ pre.nodes[Top(pre)].tag # svg
    /\ p.err = "none"
    /\ p.in_svg
    /\ Len(p.stack) = 1
    /\ p.nodes[p.stack[1]].tag = svg

\* the errors the parser raises itself (self.error raises HTMLParseError)
ParseErrors ==
    {E_OPEN, E_CLOSE_TOP, E_CLOSE, E_MALFORMED, E_JUNK, E_BAD_END}

\* C24: a comment event on an empty stack, before the root is opened or
\* after it was closed, is not dropped as a text there is: it fails with an
\* index error, which is none of the parse errors of the parser, and no
\* comment node is attached: nodes, root and stack are as they were.
C24_CommentOnEmptyStack ==
    (ev.kind = "comment" /\ pre.err = "none" /\ pre.stack = <<>>)
        => /\ p.err = E_INDEX
           /\ p.err \notin ParseErrors
           /\ p.nodes = pre.nodes
           /\ p.root = pre.root
           /\ p.stack = <<>>
           /\ handle_data(pre, ev.data) = pre

\* a comment after the root was closed
C24_Witness ==
    /\ ev.kind = "comment"
    /\ pre.err = "none"
    /\ pre.stack = <<>>
    /\ pre.root = 1
    /\ Len(pre.nodes) >= 1
    /\ p.err = E_INDEX
    /\ p.nodes = pre.nodes

\* documents that end with elements still open: <ul><li>a has no end tag,
\* <div>x</di ends inside an end tag
OpenEnded == {doc_open, doc_cut}

\* C25: when the input ends with elements still on the stack, the end of
\* the input raises nothing: parse_html returns the root, which is the
\* bottom of the stack, with the tree built so far.  Every feed that has
\* raised nothing is such an end; for the documents with a missing end tag
\* or a tag cut short, cut into chunks in every way, nothing is raised,
\* the elements stay on the stack and the cut tag stays in the buffer.
C25_EndOfInputOpenStack ==
    /\ (ev.kind = "feed" /\ p.err = "none" /\ p.stack # <<>>)
         => /\ returned(p) = <<"return", p.root>>
            /\ p.root = p.stack[1]
            /\ p.nodes[p.root].kind = "element"
    /\ (ev.kind = "feed" /\ rest = <<>> /\ fed \in OpenEnded)
         => /\ p.err = "none"
            /\ returned(p) = <<"return", 1>>
            /\ fed = doc_open
                 => /\ p.stack = <<1, 2>>
                    /\ p.nodes[1].children = <<2>>
                    /\ p.nodes[2].text = <<"a">>
                    /\ p.rawdata = <<>>
            /\ fed = doc_cut
                 => /\ p.stack = <<1>>
                    /\ p.nodes[1].text = <<"x">>
                    /\ p.rawdata = <<"<", "/", "d", "i">>

\* <div>x</di fed to its end: the div is open, the cut end tag waits in
\* the buffer and the root is returned
C25_Witness ==
    /\ ev.kind = "feed"
    /\ rest = <<>>
    /\ fed = doc_cut
    /\ p.stack = <<1>>
    /\ p.rawdata # <<>>
    /\ returned(p) = <<"return", 1>>

====
